---- MODULE Spec2Model ----
(***************************************************************************)
(* Model of scheduler.py: a loop that launches deliSignup.py three times a *)
(* day (09:30, 14:00, 19:00, each with a random jitter of +-15 minutes).   *)
(* Instants are integer seconds since 00:00:00 of day 0 (local time).      *)
(***************************************************************************)
EXTENDS Integers, Sequences, FiniteSets, TLC

VARIABLES
    pc,             \* position of main(): "start", "idle" (top of the while loop),
                    \* "waiting" (inner wait loop), "dedup" (line 133), "exited",
                    \* "crashed" (uncaught exception), "off" (main is not run)
    once,           \* args.once
    script_present, \* os.path.isfile(deli_path), an environment fact
    clock,          \* the wall clock datetime.datetime.now() reads
    now,            \* main's local `now`
    target,         \* main's local `target` (meaningful while pc = "waiting")
    today_executed, \* main's local set of schedule keys
    current_day,    \* main's local `current_day`
    rc,             \* {} until run_deli_signup has returned, then {its result}
    exit_status,    \* {} while running, then {the value main() returned}
    last_log,       \* the kind of the last record written to the log
    last_slot,      \* history: the nominal slot <<day, i>> run_deli_signup last ran for
                    \* (<<>> before the first run)
    slot_runs,      \* history: how often run_deli_signup has run for last_slot
    prev_key,       \* history: key of the previous arrival at the dedup check since the
                    \* last observed rollover (<<>> when there is none)
    prior,          \* history: last_slot as it was when the process was last restarted
    prior_runs,     \* history: slot_runs as it was when the process was last restarted
    restarts,       \* history: number of process restarts so far
    launched,       \* history: the nominal slots <<day, i>> run_deli_signup has run for,
                    \* those of the date of its last run only
    whole,          \* history: main() has been running since before the earliest
                    \* jittered instant of the first base time of date current_day
    attempted,      \* history: the keys run_deli_signup was called for since the last
                    \* observed rollover
    slept,          \* the argument of the last time.sleep call of the wait loop
    drift,          \* history: by how much the sleeps of the wait loop have lasted
                    \* longer than asked, in total
    fn_in,          \* inputs of a stand-alone get_next_schedule_time call
    fn_out,         \* {} or {the instant returned for fn_in}
    key_in,         \* inputs of a stand-alone schedule-key computation
    key_out         \* <<>> or the two keys computed for key_in

vars == <<pc, once, script_present, clock, now, target, today_executed, current_day,
          rc, exit_status, last_log, last_slot, slot_runs, prev_key, prior,
          prior_runs, restarts, launched, whole, attempted, slept, drift,
          fn_in, fn_out, key_in, key_out>>

\* the variables of main() and of its environment
loop_vars == <<pc, once, script_present, clock, now, target, today_executed,
               current_day, rc, exit_status, last_log, last_slot, slot_runs,
               prev_key, prior, prior_runs, restarts, launched, whole,
               attempted, slept, drift>>

\* the variables of one pass through the wait loop, poll by poll
poll_vars == <<slept, drift>>

\* the variables of the stand-alone function calls
fn_vars == <<fn_in, fn_out, key_in, key_out>>

----------------------------------------------------------------------------
(* Bounds of the model *)

\* days 0..MaxDay are explored; the clock stops at the end of day MaxDay
MaxDay == 1

\* the random jitter offsets drawn are the 2 * JitterSamples + 1 evenly spaced values
\* of the range, both ends included
JitterSamples == 1

\* at most this many process restarts (specification SpecRestart only)
MaxRestarts == 1

----------------------------------------------------------------------------
(* Program constants *)

SCHEDULE_TIMES == << <<9, 30>>, <<14, 0>>, <<19, 0>> >>

JITTER_MINUTES == 15

\* `return 2` when deliSignup.py is missing at startup
STARTUP_MISSING == 2

\* `return -1` in run_deli_signup's except branch
LAUNCH_FAILURE == -1

\* target.minute // 30
BUCKET_MINUTES == 30

----------------------------------------------------------------------------
(* datetime arithmetic *)

DaySeconds == 24 * 3600

\* datetime.datetime.combine(day, datetime.time(hour, minute))
combine(day, hour, minute) == day * DaySeconds + hour * 3600 + minute * 60

\* t.date()
DateOf(t) == t \div DaySeconds

\* t.hour
HourOf(t) == (t % DaySeconds) \div 3600

\* t.minute
MinuteOf(t) == (t % 3600) \div 60

\* a plausible slip: the latest instead of the earliest
Min_Max(S) == CHOOSE x \in S : \A y \in S : x >= y

\* min(future_times)
Min(S) == CHOOSE x \in S : \A y \in S : x <= y

\* the values random.randint(-jitter_minutes * 60, jitter_minutes * 60) is drawn from
JitterRange(jitter_minutes) ==
    {(k * jitter_minutes * 60) \div JitterSamples :
        k \in (0 - JitterSamples)..JitterSamples}

----------------------------------------------------------------------------
(* get_next_schedule_time; offs[i] is the offset drawn for the i-th base time,
   roll the one drawn in the else branch *)

scheduled_times(now_, schedule_times, offs) ==
    [i \in 1..Len(schedule_times) |->
        combine(DateOf(now_), schedule_times[i][1], schedule_times[i][2]) + offs[i]]

future_times(now_, schedule_times, offs) ==
    LET st == scheduled_times(now_, schedule_times, offs)
    IN  {st[i] : i \in {j \in 1..Len(schedule_times) : st[j] > now_}}

\* a plausible slip: the last base time instead of the first
first_schedule_Last(schedule_times) == schedule_times[Len(schedule_times)]

\* first_schedule = schedule_times[0]
first_schedule(schedule_times) == schedule_times[1]

get_next_schedule_time(now_, schedule_times, offs, roll) ==
    LET ft == future_times(now_, schedule_times, offs)
    IN  IF ft # {}
        THEN Min(ft)
        ELSE combine(DateOf(now_) + 1, first_schedule(schedule_times)[1],
                     first_schedule(schedule_times)[2]) + roll

\* the offsets the else branch can draw after `offs` was drawn in the for loop: the
\* branch is only taken, and random.randint only called, when future_times is empty
\* (0 stands for no draw)
RollDraws(now_, schedule_times, jitter_minutes, offs) ==
    IF future_times(now_, schedule_times, offs) # {}
    THEN {0}
    ELSE JitterRange(jitter_minutes)

\* every instant the call can return, over all draws of the random offsets
NextTargets(now_, schedule_times, jitter_minutes) ==
    UNION {{get_next_schedule_time(now_, schedule_times, offs, roll) :
                roll \in RollDraws(now_, schedule_times, jitter_minutes, offs)} :
            offs \in [1..Len(schedule_times) -> JitterRange(jitter_minutes)]}

\* schedule_key = (target.date(), target.hour, target.minute // 30)
schedule_key(t) == <<DateOf(t), HourOf(t), MinuteOf(t) \div BUCKET_MINUTES>>

----------------------------------------------------------------------------
(* run_deli_signup: subprocess.run([sys.executable, script_path]) inside
   try/except Exception.  launch_ok: the operating system could start the
   interpreter; present: the script file exists; code: the script's own exit
   code.  With the script missing the interpreter still starts, cannot open
   the file and exits with status 2, so no exception is raised. *)

\* a plausible slip: no try/except around subprocess.run, a failed launch raises
run_deli_signup_NoExcept(present, launch_ok, code) ==
    IF ~launch_ok THEN [raised |-> TRUE, rc |-> LAUNCH_FAILURE]
    ELSE IF ~present THEN [raised |-> FALSE, rc |-> 2]
    ELSE [raised |-> FALSE, rc |-> code]

run_deli_signup(present, launch_ok, code) ==
    IF ~launch_ok THEN [raised |-> FALSE, rc |-> LAUNCH_FAILURE]
    ELSE IF ~present THEN [raised |-> FALSE, rc |-> 2]
    ELSE [raised |-> FALSE, rc |-> code]

----------------------------------------------------------------------------
(* Environment *)

\* instants (on day 0) at which the process is started
StartTimes == {combine(0, 8, 0), combine(0, 9, 20), combine(0, 20, 0)}

\* exit codes of deliSignup.py
ChildCodes == {0, 1}

\* how long a run of the child takes (seconds)
ChildDurations == {0, 90}

\* how much longer than asked a time.sleep call may take (suspend/resume)
Oversleep == {0, 2700}

Horizon == (MaxDay + 1) * DaySeconds

\* the nominal slot <<day, i>> an instant belongs to: the base time within the jitter
\* bound of it (the windows of the three base times are disjoint)
SlotOf(t) ==
    LET d == DateOf(t)
    IN  <<d, CHOOSE i \in 1..Len(SCHEDULE_TIMES) :
                LET b == combine(d, SCHEDULE_TIMES[i][1], SCHEDULE_TIMES[i][2])
                IN  /\ t >= b - JITTER_MINUTES * 60
                    /\ t <= b + JITTER_MINUTES * 60>>

FnIdle ==
    /\ fn_in = <<>>
    /\ fn_out = {}
    /\ key_in = <<>>
    /\ key_out = <<>>

----------------------------------------------------------------------------
(* main() *)

\* a plausible slip: the startup check is left out
startup_missing_Unchecked(present) == FALSE

\* if not os.path.isfile(deli_path)
startup_missing(present) == ~present

\* a plausible slip: the new day is noted but the record is kept
today_executed_clear_Keep(executed) == executed

\* today_executed.clear()
today_executed_clear(executed) == {}

\* a plausible slip: the run is not recorded
today_executed_add_Forget(executed, key) == executed

\* today_executed.add(schedule_key)
today_executed_add(executed, key) == executed \cup {key}

\* a plausible slip: only a successful run is recorded
executed_after_OnSuccess(executed, key, result) ==
    IF result = 0 THEN today_executed_add(executed, key) ELSE executed

\* lines 140-143: the add follows the call whatever it returned
executed_after(executed, key, result) == today_executed_add(executed, key)

\* a plausible slip: --once always reports success
once_return_Zero(result) == 0

\* return rc
once_return(result) == result

Init ==
    /\ pc = "start"
    /\ once \in BOOLEAN
    /\ script_present \in BOOLEAN
    /\ clock \in StartTimes
    /\ now = 0
    /\ target = 0
    /\ today_executed = {}
    /\ current_day = 0
    /\ rc = {}
    /\ exit_status = {}
    /\ last_log = "none"
    /\ last_slot = <<>>
    /\ slot_runs = 0
    /\ prev_key = <<>>
    /\ prior = <<>>
    /\ prior_runs = 0
    /\ restarts = 0
    /\ launched = {}
    /\ whole = FALSE
    /\ attempted = {}
    /\ slept = 0
    /\ drift = 0
    /\ FnIdle

\* lines 85-106: argument parsing, logging, the startup check, the loop's locals
Startup ==
    /\ pc = "start"
    /\ IF startup_missing(script_present)
       THEN /\ pc' = "exited"
            /\ exit_status' = {STARTUP_MISSING}
            /\ last_log' = "fatal"
            /\ UNCHANGED <<today_executed, current_day>>
       ELSE /\ pc' = "idle"
            /\ today_executed' = {}
            /\ current_day' = DateOf(clock)
            /\ last_log' = "start"
            /\ UNCHANGED exit_status
    /\ whole' = (clock < combine(DateOf(clock), SCHEDULE_TIMES[1][1], SCHEDULE_TIMES[1][2])
                            - JITTER_MINUTES * 60)
    /\ UNCHANGED <<once, script_present, clock, now, target, rc, last_slot, slot_runs,
                   prev_key, prior, prior_runs, restarts, launched, attempted>>
    /\ UNCHANGED poll_vars
    /\ UNCHANGED fn_vars

\* lines 109-122: read the clock, reset on a new day, compute the next target
CycleStart ==
    /\ pc = "idle"
    /\ now' = clock
    /\ IF DateOf(clock) # current_day
       THEN /\ today_executed' = today_executed_clear(today_executed)
            /\ current_day' = DateOf(clock)
            /\ prev_key' = <<>>
            /\ attempted' = {}
            /\ whole' = TRUE
       ELSE UNCHANGED <<today_executed, current_day, prev_key, attempted, whole>>
    /\ target' \in NextTargets(clock, SCHEDULE_TIMES, JITTER_MINUTES)
    /\ pc' = "waiting"
    /\ last_log' = "next"
    /\ UNCHANGED <<once, script_present, clock, rc, exit_status, last_slot, slot_runs,
                   prior, prior_runs, restarts, launched>>
    /\ UNCHANGED poll_vars
    /\ UNCHANGED fn_vars

\* lines 125-130, the whole wait loop: it polls the clock, sleeping min(60, remaining)
\* between polls, and ends at the first poll with remaining <= 0.  With exact sleeps
\* that poll reads `target`; a sleep that lasts `over` longer than asked (the last one,
\* or a suspend that carries the clock past target) makes it read target + over.
Wait ==
    /\ pc = "waiting"
    /\ IF target - now <= 0
       THEN clock' = clock
       ELSE \E over \in Oversleep : clock' = target + over
    /\ clock' <= Horizon
    /\ now' = clock'
    /\ pc' = "dedup"
    /\ UNCHANGED <<once, script_present, target, today_executed, current_day, rc,
                   exit_status, last_log, last_slot, slot_runs, prev_key, prior,
                   prior_runs, restarts, launched, whole, attempted>>
    /\ UNCHANGED poll_vars
    /\ UNCHANGED fn_vars

\* a plausible slip: the warning is logged but `continue` is missing, so the child is
\* run all the same
DedupSkip_NoContinue ==
    /\ pc = "dedup"
    /\ schedule_key(target) \in today_executed
    /\ \E launch_ok \in BOOLEAN, code \in ChildCodes :
        LET res == run_deli_signup(script_present, launch_ok, code) IN
        /\ rc' = {res.rc}
        /\ IF once
           THEN /\ pc' = "exited"
                /\ exit_status' = {once_return(res.rc)}
                /\ last_log' = "once_exit"
           ELSE /\ pc' = "idle"
                /\ last_log' = "wait_next"
                /\ UNCHANGED exit_status
    /\ last_slot' = SlotOf(target)
    /\ slot_runs' = IF SlotOf(target) = last_slot THEN slot_runs + 1 ELSE 1
    /\ prev_key' = schedule_key(target)
    /\ launched' = {s \in launched : s[1] = DateOf(target)} \cup {SlotOf(target)}
    /\ UNCHANGED <<once, script_present, clock, now, target, today_executed,
                   current_day, prior, prior_runs, restarts, whole, attempted>>
    /\ UNCHANGED poll_vars
    /\ UNCHANGED fn_vars

\* lines 133-136: the key was already executed
DedupSkip ==
    /\ pc = "dedup"
    /\ schedule_key(target) \in today_executed
    /\ last_log' = "skip"
    /\ prev_key' = schedule_key(target)
    /\ pc' = "idle"
    /\ UNCHANGED <<once, script_present, clock, now, target, today_executed,
                   current_day, rc, exit_status, last_slot, slot_runs, prior,
                   prior_runs, restarts, launched, whole, attempted>>
    /\ UNCHANGED poll_vars
    /\ UNCHANGED fn_vars

\* lines 133-134 and 138-150: the key is new: run the child, record the key
Dispatch ==
    /\ pc = "dedup"
    /\ schedule_key(target) \notin today_executed
    /\ \E launch_ok \in BOOLEAN, code \in ChildCodes, d \in ChildDurations :
        LET res == run_deli_signup(script_present, launch_ok, code) IN
        /\ clock' = clock + d
        /\ clock' <= Horizon
        /\ last_slot' = SlotOf(target)
        /\ slot_runs' = IF SlotOf(target) = last_slot THEN slot_runs + 1 ELSE 1
        /\ prev_key' = schedule_key(target)
        /\ launched' = {s \in launched : s[1] = DateOf(target)} \cup {SlotOf(target)}
        /\ attempted' = attempted \cup {schedule_key(target)}
        /\ IF res.raised
           THEN /\ pc' = "crashed"
                /\ exit_status' = {1}
                /\ last_log' = "dispatch"
                /\ UNCHANGED <<rc, today_executed>>
           ELSE /\ rc' = {res.rc}
                /\ today_executed' = executed_after(today_executed, schedule_key(target),
                                                    res.rc)
                /\ IF once
                   THEN /\ pc' = "exited"
                        /\ exit_status' = {once_return(res.rc)}
                        /\ last_log' = "once_exit"
                   ELSE /\ pc' = "idle"
                        /\ last_log' = "wait_next"
                        /\ UNCHANGED exit_status
    /\ UNCHANGED <<once, script_present, now, target, current_day, prior, prior_runs,
                   restarts, whole>>
    /\ UNCHANGED poll_vars
    /\ UNCHANGED fn_vars

\* environment: deliSignup.py is removed while the scheduler runs
RemoveScript ==
    /\ pc \in {"idle", "waiting", "dedup"}
    /\ script_present
    /\ script_present' = FALSE
    /\ UNCHANGED <<pc, once, clock, now, target, today_executed, current_day, rc,
                   exit_status, last_log, last_slot, slot_runs, prev_key, prior,
                   prior_runs, restarts, launched, whole, attempted>>
    /\ UNCHANGED poll_vars
    /\ UNCHANGED fn_vars

Next ==
    \/ Startup
    \/ CycleStart
    \/ Wait
    \/ DedupSkip
    \/ Dispatch
    \/ RemoveScript

Spec == Init /\ [][Next]_vars

\* a step of main() itself (the environment's steps left out)
LoopStep ==
    \/ Startup
    \/ CycleStart
    \/ Wait
    \/ DedupSkip
    \/ Dispatch

\* the scheduling the interpreter guarantees: main() keeps executing its statements,
\* and the clock keeps advancing, so a step of the loop that can be taken is taken.
\* Only the --once runs are asked to make progress; a daemon run may stop anywhere.
LiveSpec == Init /\ [][Next]_vars /\ WF_vars(once /\ LoopStep)

----------------------------------------------------------------------------
(* The process is stopped and started again: everything main() holds in memory is
   lost, the clock and the file system are not *)

Restart ==
    /\ pc \in {"idle", "waiting", "dedup"}
    /\ restarts < MaxRestarts
    /\ restarts' = restarts + 1
    /\ prior' = last_slot
    /\ prior_runs' = slot_runs
    /\ pc' = "start"
    /\ now' = 0
    /\ target' = 0
    /\ today_executed' = {}
    /\ current_day' = 0
    /\ rc' = {}
    /\ last_log' = "none"
    /\ prev_key' = <<>>
    /\ attempted' = {}
    /\ UNCHANGED <<once, script_present, clock, exit_status, last_slot, slot_runs,
                   launched, whole>>
    /\ UNCHANGED poll_vars
    /\ UNCHANGED fn_vars

NextRestart ==
    \/ Next
    \/ Restart

SpecRestart == Init /\ [][NextRestart]_vars

----------------------------------------------------------------------------
(* Stand-alone calls of the two pure computations, main() not running *)

LoopOff ==
    /\ pc = "off"
    /\ once = FALSE
    /\ script_present = TRUE
    /\ clock = 0
    /\ now = 0
    /\ target = 0
    /\ today_executed = {}
    /\ current_day = 0
    /\ rc = {}
    /\ exit_status = {}
    /\ last_log = "none"
    /\ last_slot = <<>>
    /\ slot_runs = 0
    /\ prev_key = <<>>
    /\ prior = <<>>
    /\ prior_runs = 0
    /\ restarts = 0
    /\ launched = {}
    /\ whole = FALSE
    /\ attempted = {}
    /\ slept = 0
    /\ drift = 0

\* the day the stand-alone calls are made on
FnDay == MaxDay

\* base schedules: non-empty lists of valid times of day
Schedules ==
    { SCHEDULE_TIMES,
      << <<9, 30>> >>,
      << <<9, 30>>, <<14, 0>> >>,
      << <<14, 0>>, <<9, 30>> >>,
      << <<0, 5>> >>,
      << <<23, 50>> >> }

\* jitter bounds (minutes)
Jitters == {0, JITTER_MINUTES}

\* instants `now` of day FnDay
NowInputs == {combine(FnDay, h, m) : h \in {0, 8, 10, 15, 20, 23}, m \in {0, 58}}

InitNextTime ==
    /\ LoopOff
    /\ fn_in \in [now : NowInputs, schedule_times : Schedules, jitter_minutes : Jitters]
    /\ fn_out = {}
    /\ key_in = <<>>
    /\ key_out = <<>>

\* one call: the offsets drawn are kept next to the instant returned
CallNextTime ==
    /\ fn_out = {}
    /\ \E offs \in [1..Len(fn_in.schedule_times) -> JitterRange(fn_in.jitter_minutes)] :
       \E roll \in RollDraws(fn_in.now, fn_in.schedule_times, fn_in.jitter_minutes, offs) :
        fn_out' = {[t |-> get_next_schedule_time(fn_in.now, fn_in.schedule_times, offs, roll),
                    offs |-> offs,
                    roll |-> roll]}
    /\ UNCHANGED <<fn_in, key_in, key_out>>
    /\ UNCHANGED loop_vars

\* the next call of a sequence, at a later `now`
LaterCall ==
    /\ fn_out # {}
    /\ \E n \in NowInputs :
        /\ n > fn_in.now
        /\ fn_in' = [fn_in EXCEPT !.now = n]
    /\ fn_out' = {}
    /\ UNCHANGED <<key_in, key_out>>
    /\ UNCHANGED loop_vars

NextNextTime ==
    \/ CallNextTime
    \/ LaterCall

SpecNextTime == InitNextTime /\ [][NextNextTime]_vars

InitKey ==
    /\ LoopOff
    /\ fn_in = <<>>
    /\ fn_out = {}
    /\ key_in \in [day : 0..MaxDay, base : 1..Len(SCHEDULE_TIMES),
                    o1 : JitterRange(JITTER_MINUTES), o2 : JitterRange(JITTER_MINUTES)]
    /\ key_out = <<>>

\* the keys of two fire attempts for the same base time of the same day
ComputeKeys ==
    /\ key_out = <<>>
    /\ LET b == combine(key_in.day, SCHEDULE_TIMES[key_in.base][1],
                        SCHEDULE_TIMES[key_in.base][2])
       IN  key_out' = <<schedule_key(b + key_in.o1), schedule_key(b + key_in.o2)>>
    /\ UNCHANGED <<fn_in, fn_out, key_in>>
    /\ UNCHANGED loop_vars

\* the same attempts on the next day
NextDayKeys ==
    /\ key_out # <<>>
    /\ key_in.day < MaxDay
    /\ key_in' = [key_in EXCEPT !.day = @ + 1]
    /\ key_out' = <<>>
    /\ UNCHANGED <<fn_in, fn_out>>
    /\ UNCHANGED loop_vars

NextKey ==
    \/ ComputeKeys
    \/ NextDayKeys

SpecKey == InitKey /\ [][NextKey]_vars

----------------------------------------------------------------------------
(* One pass through the wait loop of lines 125-130, poll by poll.  The action Wait
   above is the summary of such a pass. *)

\* the longest wait explored, in seconds from the entry of the loop to the target
MaxWait == 150

\* the longest single sleep (seconds)
SLEEP_CHUNK == 60

\* the instant the wait loop is entered at
PollStart == combine(0, 9, 0)

\* how much longer than asked one time.sleep call may take
PollOversleep == {0, 1, 75}

\* a plausible slip: always a whole chunk
sleep_for_Chunk(remaining) == SLEEP_CHUNK

\* min(60, remaining)
sleep_for(remaining) == IF SLEEP_CHUNK < remaining THEN SLEEP_CHUNK ELSE remaining

\* the loop is entered with the target just passed, due now, or up to MaxWait ahead
InitPoll ==
    /\ pc = "waiting"
    /\ once = FALSE
    /\ script_present = TRUE
    /\ clock = PollStart
    /\ now = PollStart
    /\ target \in {PollStart + w : w \in (0 - 1)..MaxWait}
    /\ today_executed = {}
    /\ current_day = DateOf(PollStart)
    /\ rc = {}
    /\ exit_status = {}
    /\ last_log = "next"
    /\ last_slot = <<>>
    /\ slot_runs = 0
    /\ prev_key = <<>>
    /\ prior = <<>>
    /\ prior_runs = 0
    /\ restarts = 0
    /\ launched = {}
    /\ whole = TRUE
    /\ attempted = {}
    /\ slept = 0
    /\ drift = 0
    /\ FnIdle

\* lines 126-127 and 130: the poll finds time remaining and sleeps
PollSleep ==
    /\ pc = "waiting"
    /\ target - clock > 0
    /\ now' = clock
    /\ slept' = sleep_for(target - clock)
    /\ \E over \in PollOversleep :
        /\ clock' = clock + slept' + over
        /\ drift' = drift + over
    /\ UNCHANGED <<pc, once, script_present, target, today_executed, current_day, rc,
                   exit_status, last_log, last_slot, slot_runs, prev_key, prior,
                   prior_runs, restarts, launched, whole, attempted>>
    /\ UNCHANGED fn_vars

\* lines 126-129: the poll finds no time remaining and leaves the loop
PollBreak ==
    /\ pc = "waiting"
    /\ target - clock <= 0
    /\ now' = clock
    /\ pc' = "dedup"
    /\ UNCHANGED <<once, script_present, clock, target, today_executed, current_day,
                   rc, exit_status, last_log, last_slot, slot_runs, prev_key, prior,
                   prior_runs, restarts, launched, whole, attempted>>
    /\ UNCHANGED poll_vars
    /\ UNCHANGED fn_vars

NextPoll ==
    \/ PollSleep
    \/ PollBreak

SpecPoll == InitPoll /\ [][NextPoll]_vars

----------------------------------------------------------------------------
(* Properties *)

\* a step that leaves the dedup check: DedupSkip or Dispatch
LeavesDedup == pc = "dedup" /\ pc' # "dedup"

\* C1: within one uninterrupted run, run_deli_signup runs at most once for every
\* nominal slot (date, base time), whatever jitter offsets are drawn.  (Runs for one
\* slot are consecutive, the clock being monotonic, so slot_runs counts them all.)
C1_AtMostOncePerSlot == slot_runs <= 1

\* C2: a process started again on the date of a slot an earlier process already
\* dispatched does not run the child again for that slot.
C2_NoRelaunchAfterRestart ==
    (restarts > 0 /\ prior # <<>> /\ last_slot = prior) => slot_runs = prior_runs

\* C3: two fire attempts for the same base time on the same date get the same
\* schedule key, whatever the two jitter offsets are.
C3_SameKeyUnderJitter == key_out # <<>> => key_out[1] = key_out[2]

\* C4: get_next_schedule_time returns an instant strictly after now, and in the
\* rollover branch (no jittered instant of today after now) one on the next date.
C4_ResultAfterNow ==
    \A r \in fn_out :
        /\ r.t > fn_in.now
        /\ future_times(fn_in.now, fn_in.schedule_times, r.offs) = {}
              => DateOf(r.t) = DateOf(fn_in.now) + 1

\* C5: in the rollover branch the result is tomorrow's date combined with the first
\* base time of the list, plus the offset drawn; with jitter 0, base times [(9,30)]
\* and now = 23:00 it is 09:30:00 of the next day.
C5_RolloverUsesFirstBase ==
    \A r \in fn_out :
        /\ future_times(fn_in.now, fn_in.schedule_times, r.offs) = {}
              => /\ r.t = combine(DateOf(fn_in.now) + 1, fn_in.schedule_times[1][1],
                                  fn_in.schedule_times[1][2]) + r.roll
                 /\ r.roll >= 0 - fn_in.jitter_minutes * 60
                 /\ r.roll <= fn_in.jitter_minutes * 60
        /\ (/\ fn_in.schedule_times = << <<9, 30>> >>
            /\ fn_in.jitter_minutes = 0
            /\ fn_in.now = combine(FnDay, 23, 0))
              => r.t = combine(FnDay + 1, 9, 30)

\* C5 witness: a rollover call on a list whose first base time is not its earliest one
C5_Witness ==
    \E r \in fn_out :
        /\ fn_in.schedule_times = << <<14, 0>>, <<9, 30>> >>
        /\ fn_in.jitter_minutes = JITTER_MINUTES
        /\ fn_in.now = combine(FnDay, 20, 0)
        /\ r.roll = JITTER_MINUTES * 60
        /\ r.t = combine(FnDay + 1, 14, 15)

\* C6: an arrival at the dedup check whose key equals the key of the previous arrival,
\* no rollover having been observed in between, is skipped: the skip is logged, the
\* child is not run, and the loop goes back to idle.
C6_RepeatedKeySkipped ==
    [][(LeavesDedup /\ prev_key = schedule_key(target))
          => /\ last_log' = "skip"
             /\ pc' = "idle"
             /\ UNCHANGED <<last_slot, slot_runs, rc, today_executed>>]_vars

\* C6 witness: the child ran once for the slot, and the next arrival was skipped
C6_Witness ==
    /\ pc = "idle"
    /\ last_log = "skip"
    /\ prev_key = schedule_key(target)
    /\ last_slot = SlotOf(target)
    /\ slot_runs = 1

\* C7: the cycle start that observes a new date leaves today_executed empty and
\* current_day equal to the date observed.
C7_EmptyAfterRollover ==
    [][(pc = "idle" /\ pc' = "waiting" /\ DateOf(clock) # current_day)
          => /\ today_executed' = {}
             /\ current_day' = DateOf(now')]_vars

\* C7 witness: just after a rollover was observed with a dispatch recorded before it
C7_Witness ==
    /\ pc = "waiting"
    /\ last_log = "next"
    /\ current_day = 1
    /\ today_executed = {}
    /\ slot_runs >= 1

\* C8: a dispatch with deliSignup.py missing raises nothing, run_deli_signup returns
\* the sentinel -1, and the loop goes on (or, with --once, main returns).
C8_MissingScriptSentinel ==
    [][(LeavesDedup /\ ~script_present /\ schedule_key(target) \notin today_executed)
          => /\ pc' \in {"idle", "exited"}
             /\ rc' = {LAUNCH_FAILURE}]_vars

\* C9: with deliSignup.py missing when main starts, main returns 2 at once, in either
\* mode: no target is computed, the clock is not waited on, the child is not run,
\* today_executed stays untouched, and nothing happens after the exit.
C9_StartupFatal ==
    [][/\ (pc = "start" /\ ~script_present)
            => /\ pc' = "exited"
               /\ exit_status' = {STARTUP_MISSING}
               /\ UNCHANGED <<clock, now, target, today_executed, current_day, rc,
                              last_slot, slot_runs>>
       /\ pc # "exited"]_vars

\* C9 witness: the process has exited on the startup check
C9_Witness ==
    /\ pc = "exited"
    /\ last_log = "fatal"
    /\ exit_status = {STARTUP_MISSING}
    /\ target = 0
    /\ slot_runs = 0

\* C10: with --once and the script present at startup, the first arrival at the dedup
\* check runs the child and main returns that run's result (the child's exit code, or
\* -1); nothing happens after the exit; and the exit is eventually reached.
C10_OnceTerminates ==
    /\ [][/\ (once /\ LeavesDedup)
                => /\ pc' = "exited"
                   /\ slot_runs = 0
                   /\ slot_runs' = 1
                   /\ rc' # {}
                   /\ exit_status' = rc'
           /\ pc # "exited"]_vars
    /\ (once /\ pc = "idle") ~> (pc = "exited")

\* C10 witness: a --once run has exited with the launch-failure sentinel
C10_Witness ==
    /\ once
    /\ pc = "exited"
    /\ last_log = "once_exit"
    /\ slot_runs = 1
    /\ exit_status = {LAUNCH_FAILURE}

\* C11: in daemon mode no result of the child ends the loop: every step that leaves
\* the dedup check, whatever run_deli_signup returned (0, another exit code, -1),
\* takes main() back to the top of the while loop with no exit status, and once the
\* loop is entered a daemon run is never found exited or crashed
C11_DaemonSurvivesChild ==
    [][/\ (~once /\ LeavesDedup) =>
            /\ pc' = "idle"
            /\ exit_status' = {}
            /\ rc' \subseteq (ChildCodes \cup {STARTUP_MISSING, LAUNCH_FAILURE})
       /\ (~once /\ pc \in {"idle", "waiting", "dedup"}) =>
            pc' \in {"idle", "waiting", "dedup"}]_vars

\* a daemon run has started another cycle after a launch that failed
C11_Witness ==
    /\ ~once
    /\ pc = "waiting"
    /\ rc = {LAUNCH_FAILURE}
    /\ target > now

C13_EarliestFutureInstant ==
    \A r \in fn_out :
        LET ft == future_times(fn_in.now, fn_in.schedule_times, r.offs)
        IN  /\ ft # {} => (r.t \in ft /\ \A x \in ft : r.t <= x)
            /\ (/\ fn_in.jitter_minutes = 0
                /\ fn_in.schedule_times = << <<9, 30>> >>
                /\ fn_in.now = combine(FnDay, 8, 0)) => r.t = combine(FnDay, 9, 30)
            /\ (/\ fn_in.jitter_minutes = 0
                /\ fn_in.schedule_times = << <<9, 30>>, <<14, 0>> >>
                /\ fn_in.now = combine(FnDay, 10, 0)) => r.t = combine(FnDay, 14, 0)

\* a call with two future instants, the earliest one second in the list
C13_Witness ==
    /\ fn_in # <<>>
    /\ fn_in.schedule_times = << <<14, 0>>, <<9, 30>> >>
    /\ fn_in.now = combine(FnDay, 8, 0)
    /\ \E r \in fn_out :
        /\ r.offs = <<0 - JITTER_MINUTES * 60, JITTER_MINUTES * 60>>
        /\ r.t = combine(FnDay, 9, 45)

\* C14: the wait loop is left only at a poll that reads now >= target, so the dedup
\* check (and with it any launch) never comes before the target; every sleep asked
\* for is at most 60 s and at most the time then remaining; and when the clock
\* advances by the slept amounts only, the dedup check is reached no more than one
\* 60-second chunk after the target
C14_WaitUntilTarget ==
    /\ pc = "dedup" => now >= target
    /\ slept <= SLEEP_CHUNK
    /\ (pc = "waiting" /\ slept > 0) => slept <= target - now
    /\ (pc = "dedup" /\ drift = 0) => now - target <= SLEEP_CHUNK

\* a wait of more than one chunk has ended, after exact sleeps, the last one shorter
\* than a chunk
C14_Witness ==
    /\ pc = "dedup"
    /\ target - PollStart > SLEEP_CHUNK
    /\ drift = 0
    /\ slept > 0
    /\ slept < SLEEP_CHUNK
    /\ now >= target

\* C15: after every dispatch attempt the key of the slot is in today_executed,
\* whatever run_deli_signup returned; so every key a run was attempted for since the
\* last observed rollover is in the set, and a target with such a key is skipped and
\* not run again, also when the attempt failed
C15_KeyRecordedWhateverResult ==
    [][/\ (LeavesDedup /\ last_log' # "skip") =>
            /\ rc' # {}
            /\ schedule_key(target) \in today_executed'
       /\ (LeavesDedup /\ schedule_key(target) \in attempted) =>
            /\ last_log' = "skip"
            /\ UNCHANGED <<rc, launched, last_slot, slot_runs>>
       /\ attempted' \subseteq today_executed']_vars

\* a target with the key of a run that failed to launch has been skipped
C15_Witness ==
    /\ pc = "idle"
    /\ last_log = "skip"
    /\ rc = {LAUNCH_FAILURE}
    /\ schedule_key(target) \in attempted
    /\ schedule_key(target) \in today_executed

\* C16: a dedup skip is a pure no-op, in daemon and in single-shot mode alike: the
\* step that finds the target's key in today_executed runs no child, leaves
\* today_executed and current_day as they are, sets no exit status and takes main()
\* back to the top of the while loop
C16_SkipIsNoOp ==
    [][(LeavesDedup /\ schedule_key(target) \in today_executed) =>
            /\ pc' = "idle"
            /\ exit_status' = {}
            /\ UNCHANGED <<today_executed, current_day, rc, launched, last_slot,
                           slot_runs, attempted, clock, once>>]_vars

\* a target whose key was already in today_executed has been skipped: main() is at
\* the top of the loop, running, the earlier result and the set as they were
C16_Witness ==
    /\ pc = "idle"
    /\ last_log = "skip"
    /\ exit_status = {}
    /\ rc = {0}
    /\ Cardinality(today_executed) = 1
    /\ schedule_key(target) \in today_executed
    /\ current_day = DateOf(target)

\* C17: in every reachable state every key in today_executed carries the date
\* current_day, also after a wait that spanned midnight
C17_KeysOfCurrentDay ==
    \A k \in today_executed : k[1] = current_day

\* C18: a key stays in today_executed as long as the local date is the key's date:
\* no step taken while the clock shows date D removes a key of date D, also when the
\* key was added after a wait that began on D - 1
C18_KeyKeptThroughItsDay ==
    [][\A k \in today_executed :
            k[1] = DateOf(clock') => k \in today_executed']_vars

\* C19: today_executed never holds more than three keys, so the line
\* "executed today: n/3" never reports n > 3
C19_AtMostThreeKeys ==
    Cardinality(today_executed) <= Len(SCHEDULE_TIMES)

====
